---- MODULE Spec2Model ----
(***************************************************************************)
(* Verification model of pedrolugao/FittingAedes.                          *)
(*                                                                         *)
(* Four independent programs of the repository are modelled, each with its *)
(* own specification over its own group of variables:                      *)
(*   SpecZoom      calculate_zoom_for_1km      (maps/download_maps.py)     *)
(*   SpecInterp    the temperature / pluviosity / Kf interpolants          *)
(*   SpecReservoir the module-level computation of H, Evap and K           *)
(*                 (readHistData.py)                                       *)
(*   SpecDownload  the __main__ run: generate_coordinates_report followed  *)
(*                 by download_all_maps  (maps/download_maps.py)           *)
(*                                                                         *)
(* Real numbers are fixed point integers.  Lengths are in units of 1e-5 m  *)
(* (LenUnit per metre), cosines in units of 1e-4 (CosScale), water levels  *)
(* in units of 1/200000 mm (WaterUnit per mm).  Every scale is chosen so   *)
(* that the operations the code performs are exact on the sampled inputs   *)
(* and stay inside TLC's 32 bit integers.                                  *)
(***************************************************************************)
EXTENDS Integers, Sequences, FiniteSets, TLC

VARIABLES
    \* ---- calculate_zoom_for_1km (one call) ----
    lat,            \* argument lat, whole degrees
    image_size,     \* argument image_size, pixels
    zoom,           \* loop variable of "for zoom in range(14, 21)"
    best_zoom,      \* local best_zoom
    best_diff,      \* local best_diff (Infinity models float('inf'))
    zpc             \* position in the call: "loop", "returned"

zvars == <<lat, image_size, zoom, best_zoom, best_diff, zpc>>

VARIABLES
    \* ---- one interpolant of the readHistData modules and one query ----
    built_by,       \* <<module, name>> of the interpolant
    xs,             \* its sample abscissae (day indices), in ticks
    ys,             \* its sample values, in ValUnit
    tq,             \* the day index it was last queried at, in ticks
    yq,             \* the value it returned
    ipc             \* "built" before the query, then "queried"

ivars == <<built_by, xs, ys, tq, yq, ipc>>

VARIABLES
    \* ---- readHistData.py, "Calculo de K" ----
    inmet_temp,     \* inmet_dados['temperatura_media_geral'], whole degrees
    inmet_prec,     \* inmet_dados['precipitacao_total_diaria'], in WaterUnit
    Evap,           \* the list Evap, indexed from 0, in WaterUnit
    H,              \* the array H, indexed from 0, in WaterUnit
    K,              \* the list K, indexed from 0, in units of 1 / Hmax
    i,              \* loop variable of "for i in range(1, len(days))"
    rpc             \* next statement: "evap", "update", "clamp_hi", "clamp_lo",
                    \* "K", "done"

rvars == <<inmet_temp, inmet_prec, Evap, H, K, i, rpc>>

VARIABLES
    \* ---- maps/download_maps.py run as a script, run after run ----
    files,          \* the output tree: <<location, map type>> -> Absent, or the
                    \* number of the run that wrote the file (0: before run 1)
    run,            \* number of the current run
    api_key,        \* the api_key of the current run
    report_only,    \* args.report_only of the current run
    current,        \* local "current" of download_all_maps
    report,         \* coordinates_report.txt: location -> zoom and coverage
    printed,        \* what this run printed per location: zoom and coverage
    requests,       \* the HTTP requests this run issued
    checked,        \* the output files whose existence this run has tested
    found,          \* those of them that existed when tested
    failed,         \* the fetches of this run that raised a RequestException
    prev_failed,    \* history: the fetches of the previous run that raised one
    completed,      \* this run printed "Download complete!"
    dpc             \* next step of the run

dvars == <<files, run, api_key, report_only, current, report, printed,
           requests, checked, found, failed, prev_failed, completed, dpc>>

vars == <<zvars, ivars, rvars, dvars>>

-----------------------------------------------------------------------------
(* Bounds of the model *)

MaxLat == 180       \* latitudes -MaxLat..MaxLat whole degrees are explored
MaxSamples == 3     \* a series has 2..MaxSamples samples
QueryPad == 70      \* queries reach QueryPad ticks outside the sampled range
NumDays == 3        \* len(days): the sample days are 0, 30, ..., 30 * (NumDays - 1)
NumLocations == 2   \* the first NumLocations neighborhoods of the table are processed
MaxRuns == 2        \* the script is run at most MaxRuns times

-----------------------------------------------------------------------------
(* Arithmetic helpers *)

Abs(x) == IF x < 0 THEN -x ELSE x

RECURSIVE Pow2(_)
Pow2(n) == IF n = 0 THEN 1 ELSE 2 * Pow2(n - 1)

-----------------------------------------------------------------------------
(* maps/download_maps.py : map settings and helper functions *)

IMAGE_SIZE == 640
ZOOM_LEVEL == 16
SCALE == 2

LenUnit == 100000       \* fixed point units per metre
CosScale == 10000       \* fixed point units of a cosine

\* 156543.03392 / 2^20 metres, in LenUnit: the metres per pixel at zoom 20 on
\* the equator.  Dividing by 2^zoom is exact in binary floating point, so
\* 156543.03392 * c / 2^zoom is this value times c times 2^(20 - zoom).
EarthRes20 == 14929

ZoomFirst == 14         \* range(14, 21)
ZoomStop == 21

\* 10^4 * cos of 0..90 whole degrees, rounded to nearest.
CosTable ==
    << 10000, 9998, 9994, 9986, 9976, 9962, 9945, 9925, 9903, 9877,
       9848, 9816, 9781, 9744, 9703, 9659, 9613, 9563, 9511, 9455,
       9397, 9336, 9272, 9205, 9135, 9063, 8988, 8910, 8829, 8746,
       8660, 8572, 8480, 8387, 8290, 8192, 8090, 7986, 7880, 7771,
       7660, 7547, 7431, 7314, 7193, 7071, 6947, 6820, 6691, 6561,
       6428, 6293, 6157, 6018, 5878, 5736, 5592, 5446, 5299, 5150,
       5000, 4848, 4695, 4540, 4384, 4226, 4067, 3907, 3746, 3584,
       3420, 3256, 3090, 2924, 2756, 2588, 2419, 2250, 2079, 1908,
       1736, 1564, 1392, 1219, 1045, 872, 698, 523, 349, 175,
       0 >>

\* math.cos(math.radians(d)) in CosScale, d in whole degrees.
CosDeg(d) ==
    LET a == Abs(d) % 360
        b == IF a > 180 THEN 360 - a ELSE a
    IN  IF b <= 90 THEN CosTable[b + 1] ELSE -CosTable[(180 - b) + 1]

\* def meters_per_pixel(lat, zoom), in LenUnit.
meters_per_pixel(la, z) ==
    ((EarthRes20 * CosDeg(la)) \div CosScale) * Pow2(20 - z)

target_meters == 1000

\* coverage = mpp * image_size ; diff = abs(coverage - target_meters)
ZoomDiff(la, size, z) ==
    Abs(meters_per_pixel(la, z) * size - target_meters * LenUnit)

\* float('inf'): the largest integer, above every difference the model forms.
Infinity == 2147483647

\* Mutant of Improves: the comparison written "<=".
Improves_NonStrict(diff, best) == diff <= best

\* "diff < best_diff" of the loop body.
Improves(diff, best) == diff < best

\* Mutant of ScanStep: best_zoom is replaced but best_diff is left stale.
ScanStep_StaleDiff(bz, bd, la, size, z) ==
    IF Improves(ZoomDiff(la, size, z), bd) THEN <<z, bd>> ELSE <<bz, bd>>

\* One iteration of the loop body: the new <<best_zoom, best_diff>>.
ScanStep(bz, bd, la, size, z) ==
    LET diff == ZoomDiff(la, size, z)
    IN  IF Improves(diff, bd) THEN <<z, diff>> ELSE <<bz, bd>>

RECURSIVE ScanFrom(_, _, _, _, _)
ScanFrom(bz, bd, la, size, z) ==
    IF z >= ZoomStop THEN bz
    ELSE LET nb == ScanStep(bz, bd, la, size, z)
         IN  ScanFrom(nb[1], nb[2], la, size, z + 1)

\* def calculate_zoom_for_1km(lat, image_size=640, scale=2), as one call.
calculate_zoom_for_1km(la, size) == ScanFrom(17, Infinity, la, size, ZoomFirst)

-----------------------------------------------------------------------------
(* SpecZoom: one call of calculate_zoom_for_1km, statement by statement *)

Latitudes == (-MaxLat)..MaxLat
ImageSizes == {320, IMAGE_SIZE, 2 * IMAGE_SIZE}

ZoomIdle ==
    /\ lat = 0 /\ image_size = IMAGE_SIZE /\ zoom = ZoomFirst
    /\ best_zoom = 17 /\ best_diff = Infinity /\ zpc = "idle"

InterpIdle ==
    /\ built_by = <<"-", "-">> /\ xs = <<>> /\ ys = <<>>
    /\ tq = 0 /\ yq = 0 /\ ipc = "idle"

ReservoirIdle ==
    /\ inmet_temp = <<>> /\ inmet_prec = <<>>
    /\ Evap = <<>> /\ H = <<>> /\ K = <<>> /\ i = 0 /\ rpc = "idle"

DownloadIdle ==
    /\ files = <<>> /\ run = 0 /\ api_key = "-" /\ report_only = FALSE
    /\ current = 0 /\ report = <<>> /\ printed = <<>> /\ requests = {}
    /\ checked = {} /\ found = {} /\ failed = {} /\ prev_failed = {}
    /\ completed = FALSE
    /\ dpc = "idle"

InitZoom ==
    /\ InterpIdle /\ ReservoirIdle /\ DownloadIdle
    /\ lat \in Latitudes
    /\ image_size \in ImageSizes
    /\ zoom = ZoomFirst
    /\ best_zoom = 17
    /\ best_diff = Infinity
    /\ zpc = "loop"

\* One pass through the body of "for zoom in range(14, 21)".
ZoomIterate ==
    /\ zpc = "loop"
    /\ zoom < ZoomStop
    /\ LET nb == ScanStep(best_zoom, best_diff, lat, image_size, zoom)
       IN  /\ best_zoom' = nb[1]
           /\ best_diff' = nb[2]
    /\ zoom' = zoom + 1
    /\ UNCHANGED <<lat, image_size, zpc>>
    /\ UNCHANGED <<ivars, rvars, dvars>>

\* The range is exhausted: "return best_zoom".
ZoomReturn ==
    /\ zpc = "loop"
    /\ zoom = ZoomStop
    /\ zpc' = "returned"
    /\ UNCHANGED <<lat, image_size, zoom, best_zoom, best_diff>>
    /\ UNCHANGED <<ivars, rvars, dvars>>

NextZoom == ZoomIterate \/ ZoomReturn

SpecZoom == InitZoom /\ [][NextZoom]_vars

\* The distance of a candidate's coverage from the 1000 m target, written out
\* from the formula of meters_per_pixel (metres * LenUnit).
CoverageOf(la, size, z) == meters_per_pixel(la, z) * size
DistanceToTarget(la, size, z) == Abs(CoverageOf(la, size, z) - 1000 * LenUnit)
Candidates == 14..20

\* C1: with image width 640 px the returned zoom is a candidate in 14..20
\* whose coverage is at least as close to 1000 m as that of every other
\* candidate; at latitude 0 the result is 17, whose coverage is about 764 m,
\* and not 16, whose coverage is about 1528 m.
C1_ReturnsNearestZoom ==
    (zpc = "returned" /\ image_size = 640) =>
        /\ best_zoom \in Candidates
        /\ \A z \in Candidates :
              DistanceToTarget(lat, 640, best_zoom) <= DistanceToTarget(lat, 640, z)
        /\ lat = 0 =>
              /\ best_zoom = 17
              /\ CoverageOf(0, 640, 17) \div LenUnit = 764
              /\ CoverageOf(0, 640, 16) \div LenUnit = 1528

\* C1 witness: the call at the equator has returned 17, and zoom 16 is
\* strictly farther from the target.
C1_Witness ==
    /\ zpc = "returned" /\ image_size = 640 /\ lat = 0 /\ best_zoom = 17
    /\ DistanceToTarget(0, 640, 17) < DistanceToTarget(0, 640, 16)

\* C7: when several candidates share the minimal distance to the target, the
\* returned zoom is the smallest of them.
C7_TieGoesToSmallestZoom ==
    zpc = "returned" =>
        \A z \in Candidates :
            DistanceToTarget(lat, image_size, z)
                = DistanceToTarget(lat, image_size, best_zoom) => best_zoom <= z

\* C7 witness: a call has returned while another candidate has the same,
\* minimal, distance as the returned one.
C7_Witness ==
    /\ zpc = "returned"
    /\ \E z \in Candidates :
          /\ z # best_zoom
          /\ DistanceToTarget(lat, image_size, z)
                = DistanceToTarget(lat, image_size, best_zoom)
    /\ \A z \in Candidates :
          DistanceToTarget(lat, image_size, best_zoom)
              <= DistanceToTarget(lat, image_size, z)

-----------------------------------------------------------------------------
(* readHistData.py, testDataset/readHistData.py,                           *)
(* testDataset/NovaIguacu/readHistData.py : the interpolants               *)
(*                                                                         *)
(* Day indices are in ticks (TicksPerDay per day) so that a query can fall *)
(* between two daily samples; values are in ValUnit per 1.0, a multiple of *)
(* every sample spacing, so that slope * (x - x_lo) is exact.              *)

TicksPerDay == 2
ValUnit == 60
DayStep == 30           \* vetDias / days: multiples of 30

\* np.arange(n), in ticks.
arange(n) == [k \in 1..n |-> (k - 1) * TicksPerDay]

\* vetDias = [i * 30 for i in range(n)] and days = [0, 30, 60, ...], in ticks.
vetDias(n) == [k \in 1..n |-> (k - 1) * DayStep * TicksPerDay]

\* np.searchsorted(x, v) (side='left'): how many samples lie strictly below v.
searchsorted(x, v) == Cardinality({k \in 1..Len(x) : x[k] < v})

Clip(v, lo, hi) == IF v < lo THEN lo ELSE IF v > hi THEN hi ELSE v

\* slope * (x_new - x_lo) + y_lo with slope = (y_hi - y_lo) / (x_hi - x_lo).
LineThrough(xlo, ylo, xhi, yhi, v) ==
    ((yhi - ylo) * (v - xlo)) \div (xhi - xlo) + ylo

\* Mutant of np_interp: the sample at or below the query is returned without
\* the slope term (a step function).
np_interp_Step(v, xp, fp) ==
    IF v > xp[Len(xp)] THEN fp[Len(fp)]
    ELSE IF v < xp[1] THEN fp[1]
    ELSE fp[Cardinality({k \in 1..Len(xp) : xp[k] <= v})]

\* np.interp(x, xp, fp) with the default left and right: outside the samples
\* the first or last value is returned, inside the segment xp[j] <= x < xp[j+1]
\* is searched and the line through its end points evaluated.
np_interp(v, xp, fp) ==
    IF v > xp[Len(xp)] THEN fp[Len(fp)]
    ELSE IF v < xp[1] THEN fp[1]
    ELSE LET j == Cardinality({k \in 1..Len(xp) : xp[k] <= v})
         IN  IF j = Len(xp) THEN fp[j]
             ELSE IF xp[j] = v THEN fp[j]
             ELSE LineThrough(xp[j], fp[j], xp[j + 1], fp[j + 1], v)

\* Mutant of interp1d_extrapolate: queries outside the samples are answered
\* with the boundary value.
interp1d_Hold(v, x, y) ==
    IF v > x[Len(x)] THEN y[Len(y)]
    ELSE IF v < x[1] THEN y[1]
    ELSE LET hi == Clip(searchsorted(x, v), 1, Len(x) - 1)
         IN  LineThrough(x[hi], y[hi], x[hi + 1], y[hi + 1], v)

\* interp1d(x, y, kind='linear', fill_value='extrapolate')(v): the segment is
\* searchsorted(x, v) clipped to 1..len(x)-1 (0-based index of its upper end),
\* and the line through its end points is evaluated with no bounds check.
interp1d_extrapolate(v, x, y) ==
    LET hi == Clip(searchsorted(x, v), 1, Len(x) - 1)
    IN  LineThrough(x[hi], y[hi], x[hi + 1], y[hi + 1], v)

\* The interpolants the three modules build.
NpInterpBuilt == {<<"readHistData", "pluviosity">>, <<"readHistData", "temperature">>}
Interp1dBuilt == {<<"readHistData", "Kf">>,
                  <<"testDataset", "temperature">>, <<"testDataset", "pluviosity">>,
                  <<"NovaIguacu", "temperature">>, <<"NovaIguacu", "pluviosity">>}

\* The abscissae each interpolant is built on, for n samples.
AbscissaeOf(b, n) == IF b \in NpInterpBuilt THEN arange(n) ELSE vetDias(n)

\* Calling the interpolant b, built on x and y, at v.
Interpolant(b, x, y, v) ==
    IF b \in NpInterpBuilt THEN np_interp(v, x, y) ELSE interp1d_extrapolate(v, x, y)

-----------------------------------------------------------------------------
(* SpecInterp: an interpolant is built at import and then queried *)

SampleValues == {0, ValUnit, 3 * ValUnit}

InitInterp ==
    /\ ZoomIdle /\ ReservoirIdle /\ DownloadIdle
    /\ built_by \in NpInterpBuilt \cup Interp1dBuilt
    /\ \E n \in 2..MaxSamples :
          /\ xs = AbscissaeOf(built_by, n)
          /\ ys \in [1..n -> SampleValues]
    /\ tq = 0 /\ yq = 0
    /\ ipc = "built"

\* temperature(t) / pluviosity(t) / Kf(t) for a day index t.
Query ==
    /\ ipc = "built"
    /\ \E v \in (xs[1] - QueryPad)..(xs[Len(xs)] + QueryPad) :
          /\ tq' = v
          /\ yq' = Interpolant(built_by, xs, ys, v)
    /\ ipc' = "queried"
    /\ UNCHANGED <<built_by, xs, ys>>
    /\ UNCHANGED <<zvars, rvars, dvars>>

NextInterp == Query

SpecInterp == InitInterp /\ [][NextInterp]_vars

OutOfRange == tq < xs[1] \/ tq > xs[Len(xs)]

\* The end points of the segment nearest to an out-of-range query: 1 and 2
\* on the left, the last two on the right.
NearestSegment == IF tq < xs[1] THEN 1 ELSE Len(xs) - 1

\* yq lies on the straight line through samples i and i+1 (cross-multiplied).
OnLine(g) ==
    (yq - ys[g]) * (xs[g + 1] - xs[g]) = (ys[g + 1] - ys[g]) * (tq - xs[g])

TempOrPluv == {b \in NpInterpBuilt \cup Interp1dBuilt : b[2] \in {"temperature", "pluviosity"}}

C4_LinearBetweenSamples ==
    ipc = "queried" =>
        \A g \in 1..(Len(xs) - 1) :
            (xs[g] <= tq /\ tq <= xs[g + 1]) =>
                /\ OnLine(g)
                /\ tq = xs[g] => yq = ys[g]
                /\ tq = xs[g + 1] => yq = ys[g + 1]

\* C4 witness: an np.interp interpolant was queried strictly between two
\* samples of different value and returned a value strictly between them.
C4_Witness ==
    /\ ipc = "queried" /\ built_by = <<"readHistData", "pluviosity">>
    /\ \E g \in 1..(Len(xs) - 1) :
          /\ xs[g] < tq /\ tq < xs[g + 1]
          /\ ys[g] < yq /\ yq < ys[g + 1]

-----------------------------------------------------------------------------
(* readHistData.py : "Calculo de K", lines 27-41                           *)
(*                                                                         *)
(* Water levels are in WaterUnit per mm: the least scale in which          *)
(* l * (25 + T)^2 * (100 - Hum) is an integer for every whole T.           *)

WaterUnit == 200000
Kmax == 212
Hmax == 24
Hum == 85
lTimes10 == 78          \* l = 3.9E-5, times 10 * WaterUnit

HmaxW == Hmax * WaterUnit

\* days = [0, 30, 60, ...], indexed from 0.
days == [k \in 0..(NumDays - 1) |-> k * DayStep]

\* def temperature(i) and def pluviosity(i) of readHistData.py.
temperature(d) ==
    np_interp(d * TicksPerDay, arange(Len(inmet_temp)), inmet_temp)
pluviosity(d) ==
    np_interp(d * TicksPerDay, arange(Len(inmet_prec)), inmet_prec)

\* Mutant of Evaporation: the square is missing.
Evaporation_NoSquare(d) ==
    ((lTimes10 * (25 + temperature(d))) * (100 - Hum)) \div 10

\* l*(25+temperature(day))**2*(100-Hum), in WaterUnit.
Evaporation(d) ==
    LET b == 25 + temperature(d)
    IN  ((lTimes10 * (b * b)) * (100 - Hum)) \div 10

\* Mutant of ReservoirUpdate: the inflow and evaporation of day i are used.
ReservoirUpdate_SameDay(Hv, k) ==
    [Hv EXCEPT ![k] = Hv[k - 1] + (pluviosity(days[k]) - Evap[k])]

\* H[i] = H[i-1] + (pluviosity(days[i-1]) - Evap[i-1])
ReservoirUpdate(Hv, k) ==
    [Hv EXCEPT ![k] = Hv[k - 1] + (pluviosity(days[k - 1]) - Evap[k - 1])]

\* Mutant of ClampHigh: the test compares with Kmax.
ClampHigh_WrongLimit(Hv, k) ==
    IF Hv[k] > Kmax * WaterUnit THEN [Hv EXCEPT ![k] = HmaxW] ELSE Hv

\* if H[i] > Hmax: H[i] = Hmax
ClampHigh(Hv, k) == IF Hv[k] > HmaxW THEN [Hv EXCEPT ![k] = HmaxW] ELSE Hv

\* if H[i] < 0: H[i] = 0
ClampLow(Hv, k) == IF Hv[k] < 0 THEN [Hv EXCEPT ![k] = 0] ELSE Hv

\* Kmax*H[i]/Hmax + 1, as a numerator over HmaxW.
Capacity(Hv, k) == Kmax * Hv[k] + HmaxW

-----------------------------------------------------------------------------
(* SpecReservoir: the import of readHistData.py from line 27 on *)

Temperatures == {25, 35}
Precipitations == {0, WaterUnit, 10 * WaterUnit, 30 * WaterUnit}

\* A daily series of n months whose value is constant over each month.
Monthly(blocks, rows) == [r \in 1..rows |-> blocks[((r - 1) \div DayStep) + 1]]

InitReservoir ==
    /\ ZoomIdle /\ InterpIdle /\ DownloadIdle
    /\ \E tb \in [1..NumDays -> Temperatures], pb \in [1..NumDays -> Precipitations] :
          /\ inmet_temp = Monthly(tb, DayStep * (NumDays - 1) + 1)
          /\ inmet_prec = Monthly(pb, DayStep * (NumDays - 1) + 1)
    /\ Evap = <<>>
    /\ H = [k \in 0..(NumDays - 1) |-> 0]
    /\ K = <<>>
    /\ i = 1
    /\ rpc = "evap"

\* line 33: Evap = [l*(25+temperature(day))**2*(100-Hum) for day in days]
ComputeEvap ==
    /\ rpc = "evap"
    /\ Evap' = [k \in 0..(NumDays - 1) |-> Evaporation(days[k])]
    /\ i' = 1
    /\ rpc' = IF 1 < NumDays THEN "update" ELSE "K"
    /\ UNCHANGED <<inmet_temp, inmet_prec, H, K>>
    /\ UNCHANGED <<zvars, ivars, dvars>>

\* line 35
UpdateH ==
    /\ rpc = "update"
    /\ H' = ReservoirUpdate(H, i)
    /\ rpc' = "clamp_hi"
    /\ UNCHANGED <<inmet_temp, inmet_prec, Evap, K, i>>
    /\ UNCHANGED <<zvars, ivars, dvars>>

\* lines 36-37
ClampHighStep ==
    /\ rpc = "clamp_hi"
    /\ H' = ClampHigh(H, i)
    /\ rpc' = "clamp_lo"
    /\ UNCHANGED <<inmet_temp, inmet_prec, Evap, K, i>>
    /\ UNCHANGED <<zvars, ivars, dvars>>

\* lines 38-39, and the step of the for loop
ClampLowStep ==
    /\ rpc = "clamp_lo"
    /\ H' = ClampLow(H, i)
    /\ i' = i + 1
    /\ rpc' = IF i + 1 < NumDays THEN "update" ELSE "K"
    /\ UNCHANGED <<inmet_temp, inmet_prec, Evap, K>>
    /\ UNCHANGED <<zvars, ivars, dvars>>

\* line 40: K = [Kmax*H[i]/Hmax + 1 for i in range(len(days))]
ComputeK ==
    /\ rpc = "K"
    /\ K' = [k \in 0..(NumDays - 1) |-> Capacity(H, k)]
    /\ rpc' = "done"
    /\ UNCHANGED <<inmet_temp, inmet_prec, Evap, H, i>>
    /\ UNCHANGED <<zvars, ivars, dvars>>

NextReservoir == ComputeEvap \/ UpdateH \/ ClampHighStep \/ ClampLowStep \/ ComputeK

SpecReservoir == InitReservoir /\ [][NextReservoir]_vars

\* The rows of the daily series that hold sample day days[k].
TempOn(k) == inmet_temp[days[k] + 1]
PrecOn(k) == inmet_prec[days[k] + 1]

\* The level before clamping that the recurrence gives for index k.
RawLevel(k) == H[k - 1] + PrecOn(k - 1) - Evap[k - 1]

\* C2: every H[j] lies in [0, Hmax], except H[i] between its update and the
\* end of its clamp; in particular whenever the update of H[i] is about to
\* read H[i-1], H[i-1] is already clamped.
C2_LevelWithinBounds ==
    rpc # "idle" =>
        /\ \A j \in 0..(NumDays - 1) :
              (j # i \/ rpc \notin {"clamp_hi", "clamp_lo"}) =>
                  (0 <= H[j] /\ H[j] <= HmaxW)
        /\ rpc = "update" => (0 <= H[i - 1] /\ H[i - 1] <= HmaxW)

\* C2 witness: the computation has finished, one level was cut down to Hmax
\* and another one was raised to 0.
C2_Witness ==
    /\ rpc = "done"
    /\ \E j \in 1..(NumDays - 1), k \in 1..(NumDays - 1) :
          /\ RawLevel(j) > HmaxW /\ H[j] = HmaxW
          /\ RawLevel(k) < 0 /\ H[k] = 0

\* C5: the finished computation equals the reference: Evap[k] is
\* l * (25 + temperature(days[k]))^2 * (100 - Hum); H[0] = 0; for k >= 1, H[k]
\* is H[k-1] plus the inflow minus the evaporation of the previous sample day,
\* clamped to [0, Hmax]; K[k] = Kmax * H[k] / Hmax + 1.
C5_MatchesReference ==
    rpc = "done" =>
        /\ \A k \in 0..(NumDays - 1) :
              Evap[k] * 10 = 78 * (25 + TempOn(k)) * (25 + TempOn(k)) * (100 - 85)
        /\ H[0] = 0
        /\ \A k \in 1..(NumDays - 1) :
              H[k] = Clip(RawLevel(k), 0, 24 * WaterUnit)
        /\ \A k \in 0..(NumDays - 1) :
              K[k] - 24 * WaterUnit = 212 * H[k]

\* C5 witness: the computation has finished with a level strictly inside
\* (0, Hmax) that followed a sample day whose inflow and temperature differ
\* from those of its own day.
C5_Witness ==
    /\ rpc = "done"
    /\ \E k \in 1..(NumDays - 1) :
          /\ 0 < H[k] /\ H[k] < HmaxW
          /\ PrecOn(k - 1) # PrecOn(k)
          /\ TempOn(k - 1) # TempOn(k)
          /\ K[k] > HmaxW

\* The scenario of C6: temperature constant 25 and pluviosity constant 10.
Scenario25And10 ==
    /\ rpc = "done"
    /\ \A k \in 0..(NumDays - 1) : TempOn(k) = 25 /\ PrecOn(k) = 10 * WaterUnit

\* C6 as stated: in the scenario Evap[0] = 0.035... and H[1] = 9.96..., the
\* clamp being a no-op.
C6_Original_Evap0035 ==
    Scenario25And10 =>
        /\ 35 * WaterUnit <= Evap[0] * 1000 /\ Evap[0] * 1000 < 36 * WaterUnit
        /\ 996 * WaterUnit <= H[1] * 100 /\ H[1] * 100 < 997 * WaterUnit
        /\ H[1] = RawLevel(1)

\* C6 amended: in the scenario Evap[0] = 3.9e-5 * (25+25)^2 * 15 = 1.4625 and
\* H[1] = 0 + 10 - 1.4625 = 8.5375, the clamp being a no-op because
\* 0 <= H[1] < 24.
C6_Evap14625 ==
    Scenario25And10 =>
        /\ Evap[0] = 14625 * (WaterUnit \div 10000)
        /\ H[1] = 85375 * (WaterUnit \div 10000)
        /\ H[1] = RawLevel(1)
        /\ 0 <= H[1] /\ H[1] < 24 * WaterUnit

\* C6 witness: the scenario has been computed.
C6_Witness == Scenario25And10 /\ H[1] = RawLevel(1) /\ H[1] > 0

-----------------------------------------------------------------------------
(* maps/download_maps.py : the script, lines 253-476 *)

\* The latitudes of NEIGHBORHOODS in table order, rounded to whole degrees:
\* Santarem, Parnamirim, Duque de Caxias, Nova Iguacu, Campo Grande.
NEIGHBORHOODS ==
    << -2, -2, -2,  -6, -6, -6,  -23, -23, -23,  -23, -23, -23,  -20, -20, -20 >>

Locations == 1..NumLocations
MapTypes == {"satellite", "roadmap"}
Items == Locations \X MapTypes

PLACEHOLDER == "YOUR_GOOGLE_MAPS_API_KEY_HERE"
Absent == -1

\* Path.exists() of an output file.
exists(f, item) == f[item] # Absent

\* Mutant of SkipDownload: the existence test is lost, every file is fetched.
SkipDownload_Never(f, item) == FALSE

\* "if satellite_path.exists(): ... skipping" / "if roadmap_path.exists(): ..."
SkipDownload(f, item) == exists(f, item)

\* zoom = calculate_zoom_for_1km(lat, IMAGE_SIZE) of download_satellite_map
SatelliteZoom(la) == calculate_zoom_for_1km(la, IMAGE_SIZE)

\* Mutant of RoadmapZoom: the module constant ZOOM_LEVEL is used.
RoadmapZoom_Constant(la) == ZOOM_LEVEL

\* zoom = calculate_zoom_for_1km(lat, IMAGE_SIZE) of download_roadmap
RoadmapZoom(la) == calculate_zoom_for_1km(la, IMAGE_SIZE)

\* Mutant of ZoomAndCoverage: the coverage lacks the factor SCALE.
ZoomAndCoverage_NoScale(la) ==
    LET z == calculate_zoom_for_1km(la, IMAGE_SIZE)
    IN  [zoom |-> z, coverage |-> meters_per_pixel(la, z) * IMAGE_SIZE]

\* zoom, and coverage = mpp * IMAGE_SIZE * SCALE, as download_all_maps prints
\* them and generate_coordinates_report writes them.
ZoomAndCoverage(la) ==
    LET z == calculate_zoom_for_1km(la, IMAGE_SIZE)
    IN  [zoom |-> z, coverage |-> meters_per_pixel(la, z) * IMAGE_SIZE * SCALE]

\* Mutant of TryFetch: the file is written before raise_for_status, so the
\* body of an error response is saved as well.
TryFetch_WriteFirst(outcome) == [saved |-> TRUE, raised |-> FALSE]

\* Mutant of TryFetch: no try/except, the RequestException leaves the function.
TryFetch_Uncaught(outcome) ==
    [saved |-> outcome = "ok", raised |-> outcome = "error"]

\* The try/except of download_satellite_map and download_roadmap: the file is
\* written when requests.get and raise_for_status pass; a RequestException is
\* caught, reported, and False is returned.
TryFetch(outcome) == [saved |-> outcome = "ok", raised |-> FALSE]

\* The output tree after a fetch of item with the given result in run r.
Written(f, item, res, r) == IF res.saved THEN [f EXCEPT ![item] = r] ELSE f

-----------------------------------------------------------------------------
(* SpecDownload: runs of the script on the same output directory *)

InitDownload ==
    /\ ZoomIdle /\ InterpIdle /\ ReservoirIdle
    /\ files \in [Items -> {Absent, 0}]
    /\ run = 0
    /\ api_key = PLACEHOLDER
    /\ report_only = FALSE
    /\ current = 0
    /\ report = [loc \in Locations |-> [zoom |-> 0, coverage |-> 0]]
    /\ printed = [loc \in Locations |-> [zoom |-> 0, coverage |-> 0]]
    /\ requests = {}
    /\ checked = {}
    /\ found = {}
    /\ failed = {}
    /\ prev_failed = {}
    /\ completed = FALSE
    /\ dpc = "exited"

\* The script is started: the arguments are parsed (lines 429-468).
StartRun ==
    /\ dpc = "exited"
    /\ run < MaxRuns
    /\ run' = run + 1
    /\ api_key' \in {PLACEHOLDER, "key"}
    /\ report_only' \in BOOLEAN
    /\ current' = 0
    /\ printed' = [loc \in Locations |-> [zoom |-> 0, coverage |-> 0]]
    /\ requests' = {}
    /\ checked' = {}
    /\ found' = {}
    /\ failed' = {}
    /\ prev_failed' = failed
    /\ completed' = FALSE
    /\ dpc' = "report"
    /\ UNCHANGED <<files, report>>
    /\ UNCHANGED <<zvars, ivars, rvars>>

\* generate_coordinates_report(output_dir) (lines 395-422, 470-474)
GenerateReport ==
    /\ dpc = "report"
    /\ report' = [loc \in Locations |-> ZoomAndCoverage(NEIGHBORHOODS[loc])]
    /\ dpc' = IF report_only THEN "exited" ELSE "download"
    /\ UNCHANGED <<files, run, api_key, report_only, current, printed,
                   requests, checked, found, failed, prev_failed, completed>>
    /\ UNCHANGED <<zvars, ivars, rvars>>

\* download_all_maps up to its loop (lines 340-351)
BeginDownload ==
    /\ dpc = "download"
    /\ current' = 0
    /\ dpc' = IF api_key = PLACEHOLDER THEN "exited"
              ELSE IF NumLocations = 0 THEN "finish" ELSE "visit"
    /\ UNCHANGED <<files, run, api_key, report_only, report, printed,
                   requests, checked, found, failed, prev_failed, completed>>
    /\ UNCHANGED <<zvars, ivars, rvars>>

\* The head of the loop body: the next neighborhood, its zoom and coverage
\* are printed (lines 356-371)
VisitNeighborhood ==
    /\ dpc = "visit"
    /\ current' = current + 1
    /\ printed' = [printed EXCEPT ![current + 1] =
                       ZoomAndCoverage(NEIGHBORHOODS[current + 1])]
    /\ dpc' = "satellite"
    /\ UNCHANGED <<files, run, api_key, report_only, report,
                   requests, checked, found, failed, prev_failed, completed>>
    /\ UNCHANGED <<zvars, ivars, rvars>>

\* The step taken for one output file: skipped when it exists, else requested
\* with the given zoom; the request ends "ok" or "error" (RequestException).
\* A raised exception ends the run in "aborted".
FetchStep(item, z, next) ==
    /\ checked' = checked \cup {item}
    /\ found' = IF exists(files, item) THEN found \cup {item} ELSE found
    /\ IF SkipDownload(files, item)
       THEN /\ dpc' = next
            /\ UNCHANGED <<files, requests, failed>>
       ELSE \E outcome \in {"ok", "error"} :
              LET res == TryFetch(outcome)
              IN  /\ requests' = requests \cup
                        {[loc |-> item[1], maptype |-> item[2], zoom |-> z,
                          existed |-> exists(files, item)]}
                  /\ files' = Written(files, item, res, run)
                  /\ failed' = IF outcome = "error" THEN failed \cup {item} ELSE failed
                  /\ dpc' = IF res.raised THEN "aborted" ELSE next
    /\ UNCHANGED <<run, api_key, report_only, current, report, printed,
                   prev_failed, completed>>
    /\ UNCHANGED <<zvars, ivars, rvars>>

\* lines 373-379, with download_satellite_map (lines 253-296)
FetchSatellite ==
    /\ dpc = "satellite"
    /\ FetchStep(<<current, "satellite">>,
                 SatelliteZoom(NEIGHBORHOODS[current]), "roadmap")

\* lines 381-387, with download_roadmap (lines 299-334)
FetchRoadmap ==
    /\ dpc = "roadmap"
    /\ FetchStep(<<current, "roadmap">>,
                 RoadmapZoom(NEIGHBORHOODS[current]),
                 IF current < NumLocations THEN "visit" ELSE "finish")

\* lines 389-392: "Download complete!"
FinishDownload ==
    /\ dpc = "finish"
    /\ completed' = TRUE
    /\ dpc' = "exited"
    /\ UNCHANGED <<files, run, api_key, report_only, current, report, printed,
                   requests, checked, found, failed, prev_failed>>
    /\ UNCHANGED <<zvars, ivars, rvars>>

NextDownload ==
    \/ StartRun \/ GenerateReport \/ BeginDownload \/ VisitNeighborhood
    \/ FetchSatellite \/ FetchRoadmap \/ FinishDownload

SpecDownload == InitDownload /\ [][NextDownload]_vars

Requested(item) ==
    \E r \in requests : r.loc = item[1] /\ r.maptype = item[2]

\* The order in which a run visits the output files.
Before(a, b) ==
    a[1] < b[1] \/ (a[1] = b[1] /\ a[2] = "satellite" /\ b[2] = "roadmap")

DownloadingRun == run > 0 /\ api_key # PLACEHOLDER /\ ~report_only

\* C8: a run with a real API key is never aborted by a failed fetch: when it
\* ends it has printed its completion message, has tested every output file
\* of the table and has requested each one that was missing when tested.
C8_FailedFetchDoesNotAbort ==
    /\ dpc # "aborted"
    /\ (DownloadingRun /\ dpc = "exited") => completed
    /\ completed =>
          /\ checked = Items
          /\ \A item \in Items \ found : Requested(item)
    /\ \A item \in failed :
          dpc \in {"visit", "finish", "exited"} =>
              \A later \in Items :
                  (Before(item, later) /\ later[1] <= current) => later \in checked

\* C8 witness: a run completed although a fetch failed, and a file visited
\* after the failed one was requested.
C8_Witness ==
    /\ completed
    /\ \E item \in failed, later \in Items :
          Before(item, later) /\ Requested(later) /\ later \notin failed

\* C9, the state part: every request of a run was for a file that did not
\* exist when it was tested, and a run that found every file written by
\* earlier runs has issued no request.
RequestsOnlyForMissing ==
    /\ \A r \in requests : ~r.existed
    /\ \A item \in found : ~Requested(item)
    /\ (\A item \in Items : files[item] \notin {Absent, run}) => requests = {}

\* C9, the step part: a file that exists keeps its content.
NoOverwrite ==
    \A item \in Items : files[item] # Absent => files'[item] = files[item]

\* C9: a request is issued for an output file only if the file does not exist
\* when it is tested; an existing file is never requested or overwritten, so a
\* run after a fully successful run issues no request.
C9_SkipExistingFiles == []RequestsOnlyForMissing /\ [][NoOverwrite]_vars

\* C9 witness: the second run completed without a request, every file having
\* been fetched by the first run.
C9_Witness ==
    /\ run = 2 /\ completed /\ checked = Items /\ requests = {}
    /\ \A item \in Items : files[item] = 1

FailedFetchLeavesNoFile ==
    /\ \A item \in failed : files[item] = Absent /\ Requested(item)
    /\ \A item \in Items :
          (run > 0 /\ files[item] = run) => (Requested(item) /\ item \notin failed)
    /\ \A item \in prev_failed :
          /\ files[item] \in {Absent, run}
          /\ item \in checked => Requested(item)

\* C11, the step part: a step that records a failed fetch changes no file,
\* and a file changes only from absent to written by a fetch of this run that
\* did not fail.
OnlySuccessfulFetchWrites ==
    /\ failed' # failed => files' = files
    /\ \A item \in Items :
          files'[item] # files[item] =>
              /\ files[item] = Absent /\ files'[item] = run
              /\ item \notin failed'
              /\ \E r \in requests' \ requests :
                    r.loc = item[1] /\ r.maptype = item[2]

\* C11: a fetch that fails with a request error creates or modifies no output
\* file, so an output file exists only if it existed initially or a fetch for
\* it succeeded, and a failed fetch is attempted again on the next run that
\* downloads.
C11_FailedFetchWritesNothing ==
    []FailedFetchLeavesNoFile /\ [][OnlySuccessfulFetchWrites]_vars

\* C11 witness: a fetch failed in the first run, was attempted again in the
\* second run and succeeded there, while another fetch of the second run
\* failed and left its file absent.
C11_Witness ==
    /\ run = 2
    /\ \E item \in prev_failed, other \in failed :
          /\ Requested(item) /\ files[item] = 2
          /\ other # item /\ files[other] = Absent

\* C12: the coverage printed by download_all_maps and the coverage written by
\* generate_coordinates_report are SCALE (2) times the coverage estimate
\* meters_per_pixel * IMAGE_SIZE of the selected zoom, and the selected zoom
\* is the one whose estimate without the scale factor is nearest to 1000 m.
C12_ReportedCoverageIsScaled ==
    \A loc \in Locations :
        LET la == NEIGHBORHOODS[loc]
            Shown(rec) ==
                /\ rec.coverage = 2 * CoverageOf(la, 640, rec.zoom)
                /\ \A z \in Candidates :
                      DistanceToTarget(la, 640, rec.zoom) <= DistanceToTarget(la, 640, z)
        IN  /\ (run > 0 /\ dpc # "report") => Shown(report[loc])
            /\ (loc <= current /\ dpc # "exited") => Shown(printed[loc])

\* C12 witness: a location was printed and reported with zoom 17 and a
\* coverage of about 1528 m, twice the 764 m that selected the zoom.
C12_Witness ==
    \E loc \in Locations :
        /\ loc <= current /\ dpc = "satellite"
        /\ printed[loc].zoom = 17 /\ report[loc].zoom = 17
        /\ printed[loc].coverage = report[loc].coverage
        /\ printed[loc].coverage \div LenUnit \in 1520..1530
        /\ CoverageOf(NEIGHBORHOODS[loc], 640, 17) \div LenUnit \in 760..765

====
